---- MODULE Spec2Model ----
(***************************************************************************)
(* The orbital-mechanics component (UOrbitalMechanics) as a state machine. *)
(* The component's float fields are modelled as decimal floating-point     *)
(* values of seven significant digits with the single-precision range,     *)
(* +Inf, -Inf and NaN, so that the source's constants are used as written  *)
(* (SI units) and a division by zero or an overflow yields what the build  *)
(* yields.                                                                 *)
(*                                                                         *)
(* A local of the code is bound where the code computes it:                *)
(*     Only({ <the rest, using v> : v \in { <the value of v> } })          *)
(* is the rest of the function body after the statement v = <value>.       *)
(***************************************************************************)
EXTENDS Integers, Sequences, FiniteSets, TLC

\* the element of a one-element set
Only(S) == CHOOSE r \in S : TRUE

(***************************************************************************)
(* float: value = m * 10^e, |m| in [10^6, 10^7) or m = 0.                  *)
(***************************************************************************)
NaN == [k |-> "nan", m |-> 0, e |-> 0]
PInf == [k |-> "inf", m |-> 1, e |-> 0]
NInf == [k |-> "inf", m |-> -1, e |-> 0]
Zero == [k |-> "num", m |-> 0, e |-> 0]

Inf(s) == IF s < 0 THEN NInf ELSE PInf
IsNaN(x) == x.k = "nan"
IsInf(x) == x.k = "inf"
IsFinite(x) == x.k = "num"
IsZero(x) == x.k = "num" /\ x.m = 0

Sgn(n) == IF n < 0 THEN -1 ELSE IF n > 0 THEN 1 ELSE 0
IAbs(n) == IF n < 0 THEN -n ELSE n

\* single precision overflows to infinity above 3.402823e38 and underflows
\* to zero below the smallest denormal (about 1e-45)
Range(s, a, e) ==
    IF e > 32 \/ (e = 32 /\ a > 3402823) THEN Inf(s)
    ELSE IF e < -51 THEN Zero
    ELSE [k |-> "num", m |-> s * a, e |-> e]

\* the number of decimal digits of a > 0 beyond seven
Excess(a) ==
    IF a >= 10^9 THEN 3 ELSE IF a >= 10^8 THEN 2 ELSE IF a >= 10^7 THEN 1 ELSE 0

\* the number of decimal digits a > 0 lacks to seven
Lack(a) ==
    IF a >= 10^6 THEN 0 ELSE IF a >= 10^5 THEN 1 ELSE IF a >= 10^4 THEN 2
    ELSE IF a >= 10^3 THEN 3 ELSE IF a >= 10^2 THEN 4 ELSE IF a >= 10 THEN 5
    ELSE 6

\* round the magnitude a * 10^e (0 <= a < 2^31 - 500) to seven digits
Pack(s, a, e) ==
    IF a = 0 THEN Zero
    ELSE IF a < 10^7 THEN Range(s, a * (10^Lack(a)), e - Lack(a))
    ELSE \* rounded to the nearest; a carry to 10^7 is 10^6 one exponent up
         LET r == (a + ((10^Excess(a)) \div 2)) \div (10^Excess(a))
         IN  Range(s, IF r >= 10^7 THEN 10^6 ELSE r,
                      IF r >= 10^7 THEN e + Excess(a) + 1 ELSE e + Excess(a))

\* the literal m e<e>, 0 < |m| < 10^7, within the range
Lit(m, e) == [k |-> "num", m |-> m * (10^Lack(IAbs(m))), e |-> e - Lack(IAbs(m))]
One == Lit(1, 0)
Two == Lit(2, 0)

FNeg(x) == IF IsNaN(x) THEN NaN ELSE [x EXCEPT !.m = -x.m]
FAbs(x) == IF IsNaN(x) THEN NaN ELSE [x EXCEPT !.m = IAbs(x.m)]

\* hi + lo for finite hi, lo with hi.e >= lo.e: two guard digits
AddAligned(hi, lo) ==
    IF hi.m = 0 THEN lo
    ELSE IF lo.m = 0 \/ hi.e - lo.e > 9 THEN hi
    ELSE LET d == hi.e - lo.e
             t == IF d <= 2 THEN hi.m * (10^d) + lo.m
                  ELSE hi.m * 100 + Sgn(lo.m) * (IAbs(lo.m) \div (10^(d - 2)))
         IN  Pack(Sgn(t), IAbs(t), IF d <= 2 THEN lo.e ELSE hi.e - 2)

FAdd(x, y) ==
    IF IsNaN(x) \/ IsNaN(y) THEN NaN
    ELSE IF IsInf(x) THEN (IF IsInf(y) /\ y.m # x.m THEN NaN ELSE x)
    ELSE IF IsInf(y) THEN y
    ELSE AddAligned(IF x.e >= y.e THEN x ELSE y, IF x.e >= y.e THEN y ELSE x)

FSub(x, y) == FAdd(x, FNeg(y))

\* the 14-digit product of two mantissas without its last five digits
MulHi(a, b) ==
    (a \div 10^4) * (b \div 10^4) * 1000
    + (((a \div 10^4) * (b % 10^4) + (a % 10^4) * (b \div 10^4)) * 10
       + (((a % 10^4) * (b % 10^4)) \div 1000)) \div 100

FMul(x, y) ==
    IF IsNaN(x) \/ IsNaN(y) THEN NaN
    ELSE IF IsInf(x) \/ IsInf(y)
         THEN (IF x.m = 0 \/ y.m = 0 THEN NaN ELSE Inf(Sgn(x.m) * Sgn(y.m)))
    ELSE IF x.m = 0 \/ y.m = 0 THEN Zero
    ELSE Pack(Sgn(x.m) * Sgn(y.m), MulHi(IAbs(x.m), IAbs(y.m)), x.e + y.e + 5)

RECURSIVE DivDigits(_, _, _, _)
\* long division: n more digits of the quotient q with remainder r
DivDigits(q, r, b, n) ==
    IF n = 0 THEN q
    ELSE DivDigits(q * 10 + ((r * 10) \div b), (r * 10) % b, b, n - 1)

\* floor(a * 10^7 / b) for a, b < 10^8
DivLong(a, b) == DivDigits(a \div b, a % b, b, 7)

\* the quotient of the mantissas is taken to eight digits
FDiv(x, y) ==
    IF IsNaN(x) \/ IsNaN(y) THEN NaN
    ELSE IF IsInf(x)
         THEN (IF IsInf(y) THEN NaN
               ELSE Inf(Sgn(x.m) * (IF y.m < 0 THEN -1 ELSE 1)))
    ELSE IF IsInf(y) THEN Zero
    ELSE IF y.m = 0 THEN (IF x.m = 0 THEN NaN ELSE Inf(Sgn(x.m)))
    ELSE IF x.m = 0 THEN Zero
    ELSE Pack(Sgn(x.m) * Sgn(y.m),
              DivLong(IF IAbs(x.m) < IAbs(y.m) THEN IAbs(x.m) * 10 ELSE IAbs(x.m),
                      IAbs(y.m)),
              x.e - y.e - (IF IAbs(x.m) < IAbs(y.m) THEN 8 ELSE 7))

\* x < y; every comparison with NaN is false
FLt(x, y) ==
    IF IsNaN(x) \/ IsNaN(y) THEN FALSE
    ELSE IF IsInf(x) THEN x.m < 0 /\ ~(IsInf(y) /\ y.m < 0)
    ELSE IF IsInf(y) THEN y.m > 0
    ELSE IF Sgn(x.m) # Sgn(y.m) THEN Sgn(x.m) < Sgn(y.m)
    ELSE IF x.m = 0 THEN FALSE
    ELSE IF x.e # y.e THEN (IF x.m > 0 THEN x.e < y.e ELSE x.e > y.e)
    ELSE x.m < y.m

FGt(x, y) == FLt(y, x)
FEq(x, y) == ~IsNaN(x) /\ ~IsNaN(y) /\ x = y
FLe(x, y) == FLt(x, y) \/ FEq(x, y)
FGe(x, y) == FLe(y, x)
FromInt(n) == Pack(Sgn(n), IAbs(n), 0)

\* the integer nearest to a finite x, |x| < 10^9
RoundInt(x) ==
    IF x.e >= 0 THEN x.m * (10^x.e)
    ELSE IF x.e < -7 THEN 0
    ELSE Sgn(x.m) * ((IAbs(x.m) + ((10^(-x.e)) \div 2)) \div (10^(-x.e)))

\* FMath::Clamp: X < Min ? Min : X < Max ? X : Max
Clamp(X, Min, Max) == IF FLt(X, Min) THEN Min ELSE IF FLt(X, Max) THEN X ELSE Max

(***************************************************************************)
(* FMath's elementary functions.                                           *)
(***************************************************************************)
Pi == Lit(3141593, -6)
TwoPi == Lit(6283185, -6)
HalfPi == Lit(1570796, -6)

RECURSIVE ISqrtIn(_, _, _)
\* the largest r in lo..hi with r * r <= a (lo * lo <= a, hi < 46341)
ISqrtIn(a, lo, hi) ==
    IF lo >= hi THEN lo
    ELSE IF ((lo + hi + 1) \div 2) * ((lo + hi + 1) \div 2) <= a
         THEN ISqrtIn(a, (lo + hi + 1) \div 2, hi)
         ELSE ISqrtIn(a, lo, ((lo + hi + 1) \div 2) - 1)

\* one Newton step towards sqrt(x)
SqrtStep(x, y) == FDiv(FAdd(y, FDiv(x, y)), Two)

\* two Newton steps from the root to four digits
Sqrt(x) ==
    IF IsNaN(x) THEN NaN
    ELSE IF IsInf(x) THEN (IF x.m > 0 THEN PInf ELSE NaN)
    ELSE IF x.m < 0 THEN NaN
    ELSE IF x.m = 0 THEN Zero
    ELSE Only({ SqrtStep(x, y1) :
                y1 \in { SqrtStep(x, Lit(ISqrtIn(IF x.e % 2 # 0 THEN x.m * 10 ELSE x.m,
                                                 1000, 10000),
                                         (IF x.e % 2 # 0 THEN x.e - 1 ELSE x.e) \div 2)) } })

\* x reduced to [-Pi, Pi] by whole turns
ReduceTurn(x) == FSub(x, FMul(FromInt(RoundInt(FDiv(x, TwoPi))), TwoPi))

\* t in [-Pi, Pi] reflected into [-Pi/2, Pi/2]: the sine is kept
FoldTurn(t) ==
    IF FGt(t, HalfPi) THEN FSub(Pi, t)
    ELSE IF FLt(t, FNeg(HalfPi)) THEN FSub(FNeg(Pi), t)
    ELSE t

RECURSIVE SinSeries(_, _, _)
\* 1 - r2/(2*3) * (1 - r2/(4*5) * (...)), up to r^15, from the innermost
\* factor outwards: acc is the factor of term n + 1
SinSeries(r2, n, acc) ==
    IF n < 1 THEN acc
    ELSE Only({ SinSeries(r2, n - 1, a) :
                a \in { FSub(One, FDiv(FMul(r2, acc), FromInt(2 * n * (2 * n + 1)))) } })

RECURSIVE CosSeries(_, _, _)
\* 1 - r2/(1*2) * (1 - r2/(3*4) * (...)), up to r^16, from the innermost
\* factor outwards
CosSeries(r2, n, acc) ==
    IF n < 1 THEN acc
    ELSE Only({ CosSeries(r2, n - 1, a) :
                a \in { FSub(One, FDiv(FMul(r2, acc), FromInt((2 * n - 1) * 2 * n))) } })

Sin(x) ==
    IF ~IsFinite(x) THEN NaN
    ELSE Only({ Only({ FMul(r, SinSeries(r2, 7, One)) : r2 \in { FMul(r, r) } }) :
                r \in { FoldTurn(ReduceTurn(x)) } })

\* the reflection changes the cosine's sign
Cos(x) ==
    IF ~IsFinite(x) THEN NaN
    ELSE Only({ Only({ Only({ IF FGt(t, HalfPi) \/ FLt(t, FNeg(HalfPi)) THEN FNeg(c) ELSE c :
                              c \in { CosSeries(r2, 8, One) } }) :
                       r2 \in { FMul(FoldTurn(t), FoldTurn(t)) } }) :
                t \in { ReduceTurn(x) } })

Tan(x) == FDiv(Sin(x), Cos(x))

RECURSIVE AtanSeries(_, _, _)
\* 1 - r2 * (1/3 - r2 * (1/5 - ...)), up to r^13, from the innermost factor
\* outwards
AtanSeries(r2, n, acc) ==
    IF n < 1 THEN acc
    ELSE Only({ AtanSeries(r2, n - 1, a) :
                a \in { FSub(FDiv(One, FromInt(2 * n - 1)), FMul(r2, acc)) } })

\* atan(x) = 2 atan(x / (1 + sqrt(1 + x^2)))
AtanHalve(x) == FDiv(x, FAdd(One, Sqrt(FAdd(One, FMul(x, x)))))

\* atan on [0, 1]: the argument halved twice
AtanUnit(x) ==
    Only({ Only({ FMul(Lit(4, 0), FMul(r, AtanSeries(r2, 7, Zero))) :
                  r2 \in { FMul(r, r) } }) :
           r \in { Only({ AtanHalve(h) : h \in { AtanHalve(x) } }) } })

\* atan(a) = Pi/2 - atan(1/a) above one
Atan(x) ==
    IF IsNaN(x) THEN NaN
    ELSE IF IsInf(x) THEN (IF x.m > 0 THEN HalfPi ELSE FNeg(HalfPi))
    ELSE Only({ Only({ IF x.m < 0 THEN FNeg(v) ELSE v :
                       v \in { IF FGt(FAbs(x), One) THEN FSub(HalfPi, u) ELSE u } }) :
                u \in { AtanUnit(IF FGt(FAbs(x), One) THEN FDiv(One, FAbs(x))
                                 ELSE FAbs(x)) } })

Atan2(y, x) ==
    IF IsNaN(x) \/ IsNaN(y) THEN NaN
    ELSE IF IsZero(x) /\ IsZero(y) THEN Zero
    ELSE IF IsZero(x) THEN (IF y.m > 0 THEN HalfPi ELSE FNeg(HalfPi))
    ELSE IF IsInf(x) /\ IsInf(y)
         THEN Only({ IF y.m > 0 THEN q ELSE FNeg(q) :
                     q \in { FDiv(FMul(FromInt(IF x.m > 0 THEN 1 ELSE 3), Pi),
                                  Lit(4, 0)) } })
    ELSE Only({ IF x.m > 0 THEN a
                ELSE IF y.m >= 0 THEN FAdd(a, Pi)
                ELSE FSub(a, Pi) :
                a \in { Atan(FDiv(y, x)) } })

\* FMath::Acos clamps its argument to [-1, 1]
Acos(x) ==
    Only({ Atan2(Sqrt(FSub(One, FMul(c, c))), c) : c \in { Clamp(x, FNeg(One), One) } })

Ln10 == Lit(2302585, -6)

RECURSIVE ExpSeries(_, _, _)
\* 1 + r/1 * (1 + r/2 * (...)), up to r^14, from the innermost factor outwards
ExpSeries(r, n, acc) ==
    IF n < 1 THEN acc
    ELSE Only({ ExpSeries(r, n - 1, a) :
                a \in { FAdd(One, FMul(FDiv(r, FromInt(n)), acc)) } })

\* FMath::Exp: e^x = 10^k * e^r with r = x - k ln 10
Exp(x) ==
    IF IsNaN(x) THEN NaN
    ELSE IF IsInf(x) THEN (IF x.m > 0 THEN PInf ELSE Zero)
    ELSE IF FGt(x, Lit(89, 0)) THEN PInf
    ELSE IF FLt(x, Lit(-104, 0)) THEN Zero
    ELSE Only({ Only({ Range(1, v.m, v.e + k) :
                       v \in { ExpSeries(FSub(x, FMul(FromInt(k), Ln10)), 14, One) } }) :
                k \in { RoundInt(FDiv(x, Ln10)) } })

RECURSIVE LnSeries(_, _, _)
\* 1 + z2 * (1/3 + z2 * (1/5 + ...)), up to z^15, from the innermost factor
\* outwards
LnSeries(z2, n, acc) ==
    IF n < 1 THEN acc
    ELSE Only({ LnSeries(z2, n - 1, a) :
                a \in { FAdd(FDiv(One, FromInt(2 * n - 1)), FMul(z2, acc)) } })

\* FMath::Loge: x = v * 10^k with v in [0.5, 5); ln v = 8 atanh(z) with
\* z = (q - 1) / (q + 1), q = v^(1/4)
Ln(x) ==
    IF IsNaN(x) THEN NaN
    ELSE IF IsInf(x) THEN (IF x.m > 0 THEN PInf ELSE NaN)
    ELSE IF x.m < 0 THEN NaN
    ELSE IF x.m = 0 THEN NInf
    ELSE Only({ Only({ FAdd(FMul(FromInt(IF x.m >= 5 * 10^6 THEN x.e + 7 ELSE x.e + 6),
                                 Ln10),
                            FMul(Lit(8, 0), FMul(z, LnSeries(FMul(z, z), 8, Zero)))) :
                       z \in { FDiv(FSub(q, One), FAdd(q, One)) } }) :
                q \in { Sqrt(Sqrt([k |-> "num", m |-> x.m,
                                   e |-> IF x.m >= 5 * 10^6 THEN -7 ELSE -6])) } })

\* FMath::Pow
Pow(b, p) == IF IsZero(p) THEN One ELSE Exp(FMul(p, Ln(b)))

(***************************************************************************)
(* FVector                                                                 *)
(***************************************************************************)
Vec(x, y, z) == [X |-> x, Y |-> y, Z |-> z]
ZeroVector == Vec(Zero, Zero, Zero)
VAdd(a, b) == Vec(FAdd(a.X, b.X), FAdd(a.Y, b.Y), FAdd(a.Z, b.Z))
VSub(a, b) == Vec(FSub(a.X, b.X), FSub(a.Y, b.Y), FSub(a.Z, b.Z))
VNeg(a) == Vec(FNeg(a.X), FNeg(a.Y), FNeg(a.Z))
\* FVector::operator*(float)
VMul(a, f) == Vec(FMul(a.X, f), FMul(a.Y, f), FMul(a.Z, f))
\* FVector::operator/(float): multiplies by the reciprocal
VDiv(a, f) == VMul(a, FDiv(One, f))
DotProduct(a, b) == FAdd(FAdd(FMul(a.X, b.X), FMul(a.Y, b.Y)), FMul(a.Z, b.Z))
CrossProduct(a, b) ==
    Vec(FSub(FMul(a.Y, b.Z), FMul(a.Z, b.Y)),
        FSub(FMul(a.Z, b.X), FMul(a.X, b.Z)),
        FSub(FMul(a.X, b.Y), FMul(a.Y, b.X)))
SizeSquared(a) == DotProduct(a, a)
Size(a) == Sqrt(SizeSquared(a))
\* FVector::GetSafeNormal: the zero vector below SMALL_NUMBER (1e-8)
GetSafeNormal(a) ==
    Only({ IF FEq(SquareSum, One) THEN a
           ELSE IF FLt(SquareSum, Lit(1, -8)) THEN ZeroVector
           ELSE VMul(a, FDiv(One, Sqrt(SquareSum))) :
           SquareSum \in { SizeSquared(a) } })
VecFinite(a) == IsFinite(a.X) /\ IsFinite(a.Y) /\ IsFinite(a.Z)

(***************************************************************************)
(* UOrbitalMechanics: constants set by the constructor                     *)
(***************************************************************************)
GravitationalConstant == Lit(667430, -16)
EarthMass == Lit(5972, 21)
EarthRadius == Lit(6371, 3)
TimeStep == Lit(16, -3)

Body(name, pos, vel, mass, radius) ==
    [Name |-> name, Position |-> pos, Velocity |-> vel, Mass |-> mass, Radius |-> radius]

InitializeCelestialBodies ==
    << Body("Earth", ZeroVector, ZeroVector, EarthMass, EarthRadius),
       Body("Moon", Vec(Lit(3844, 5), Zero, Zero), Vec(Zero, Lit(1022, 0), Zero),
            Lit(7342, 19), Lit(1737, 3)),
       Body("Mars", Vec(Lit(225, 9), Zero, Zero), Vec(Zero, Lit(24, 3), Zero),
            Lit(639, 21), Lit(3389, 3)),
       Body("Jupiter", Vec(Lit(778, 9), Zero, Zero), Vec(Zero, Lit(13, 3), Zero),
            Lit(1898, 24), Lit(69911, 3)),
       Body("Saturn", Vec(Lit(1427, 9), Zero, Zero), Vec(Zero, Lit(96, 2), Zero),
            Lit(5683, 23), Lit(58232, 3)) >>

FTransferOrbit(a, e, t, dv) ==
    [SemiMajorAxis |-> a, Eccentricity |-> e, TransferTime |-> t, DeltaV |-> dv]

VARIABLES
    SemiMajorAxis, Eccentricity, Inclination, ArgumentOfPeriapsis,
    LongitudeOfAscendingNode, TrueAnomaly,
    CurrentPosition, CurrentVelocity, CurrentAcceleration,
    SimulationTime, TimeAcceleration,
    CelestialBodies, TransferOrbit,
    PhysicsTimer,   \* the handle: 0 when it names no timer
    Timers,         \* the world's timer manager: the repeating timers on UpdatePhysics
    Owner,          \* GetOwner(): "Spacecraft" or "Actor"
    pc,             \* "constructed" until BeginPlay has run, then "playing"
    Broadcast,      \* the delegates broadcast by the last operation, in order
    BroadcastArgs,  \* the values those broadcasts carried, in order
    Log,            \* the UE_LOG lines written by the last operation
    lastOp,         \* the last operation and its inputs
    prevBroadcast,  \* the delegates broadcast by the tick before the last tick
    steps,          \* the number of operations run since BeginPlay
    kCalls,         \* the calls of SolveKeplersEquation made so far
    Other           \* the fields of the world's other UOrbitalMechanics component

vars == << SemiMajorAxis, Eccentricity, Inclination, ArgumentOfPeriapsis,
           LongitudeOfAscendingNode, TrueAnomaly,
           CurrentPosition, CurrentVelocity, CurrentAcceleration,
           SimulationTime, TimeAcceleration, CelestialBodies, TransferOrbit,
           PhysicsTimer, Timers, Owner, pc, Broadcast, BroadcastArgs, Log, lastOp,
           prevBroadcast, steps, kCalls, Other >>

\* the component's orbital state as one value, for the operations below
This ==
    [SemiMajorAxis |-> SemiMajorAxis, Eccentricity |-> Eccentricity,
     Inclination |-> Inclination, ArgumentOfPeriapsis |-> ArgumentOfPeriapsis,
     LongitudeOfAscendingNode |-> LongitudeOfAscendingNode,
     TrueAnomaly |-> TrueAnomaly,
     CurrentPosition |-> CurrentPosition, CurrentVelocity |-> CurrentVelocity,
     CurrentAcceleration |-> CurrentAcceleration,
     SimulationTime |-> SimulationTime, TimeAcceleration |-> TimeAcceleration]

Store(c) ==
    /\ SemiMajorAxis' = c.SemiMajorAxis
    /\ Eccentricity' = c.Eccentricity
    /\ Inclination' = c.Inclination
    /\ ArgumentOfPeriapsis' = c.ArgumentOfPeriapsis
    /\ LongitudeOfAscendingNode' = c.LongitudeOfAscendingNode
    /\ TrueAnomaly' = c.TrueAnomaly
    /\ CurrentPosition' = c.CurrentPosition
    /\ CurrentVelocity' = c.CurrentVelocity
    /\ CurrentAcceleration' = c.CurrentAcceleration
    /\ SimulationTime' = c.SimulationTime
    /\ TimeAcceleration' = c.TimeAcceleration

Mu == FMul(GravitationalConstant, EarthMass)

(***************************************************************************)
(* Orbital elements from position and velocity                             *)
(***************************************************************************)
\* LongitudeOfAscendingNode where the node vector N is not zero, then
\* ArgumentOfPeriapsis where also the orbit is not circular (past Pi where E
\* points down), then TrueAnomaly where the orbit is not circular
CalculateRemainingOrbitalElements(c, R, V, H, E) ==
    Only({ Only({ Only({ Only({
        IF FGt(c3.Eccentricity, Zero)
        THEN Only({ [c3 EXCEPT !.TrueAnomaly =
                         Atan2(DotProduct(CrossProduct(En, Rn), Hn), DotProduct(En, Rn))] :
                    En \in { GetSafeNormal(E) }, Rn \in { GetSafeNormal(R) },
                    Hn \in { GetSafeNormal(H) } })
        ELSE c3 :
        c3 \in { IF FGt(Size(N), Zero) /\ FGt(c2.Eccentricity, Zero) /\ FLt(E.Z, Zero)
                 THEN [c2 EXCEPT !.ArgumentOfPeriapsis = FSub(FMul(Two, Pi), @)]
                 ELSE c2 } }) :
        c2 \in { IF FGt(Size(N), Zero) /\ FGt(c1.Eccentricity, Zero)
                 THEN [c1 EXCEPT !.ArgumentOfPeriapsis =
                           Acos(DotProduct(GetSafeNormal(N), GetSafeNormal(E)))]
                 ELSE c1 } }) :
        c1 \in { IF FGt(Size(N), Zero)
                 THEN [c EXCEPT !.LongitudeOfAscendingNode = Atan2(N.Y, N.X)]
                 ELSE c } }) :
        N \in { CrossProduct(Vec(Zero, Zero, One), H) } })

\* the angular momentum H, the eccentricity vector E and the specific orbital
\* energy give Eccentricity, SemiMajorAxis and Inclination
CalculateOrbitalElements(c) ==
    Only({ Only({ Only({
        CalculateRemainingOrbitalElements(
            [c EXCEPT !.Eccentricity = Size(E),
                      !.SemiMajorAxis =
                          FDiv(FMul(FNeg(GravitationalConstant), EarthMass),
                               FMul(Two, Energy)),
                      !.Inclination =
                          Acos(DotProduct(GetSafeNormal(H), Vec(Zero, Zero, One)))],
            c.CurrentPosition, c.CurrentVelocity, H, E) :
        Energy \in { FSub(FDiv(SizeSquared(c.CurrentVelocity), Two),
                          FDiv(Mu, Size(c.CurrentPosition))) } }) :
        E \in { VSub(VDiv(CrossProduct(c.CurrentVelocity, H), Mu),
                     GetSafeNormal(c.CurrentPosition)) } }) :
        H \in { CrossProduct(c.CurrentPosition, c.CurrentVelocity) } })

(***************************************************************************)
(* Kepler propagation                                                      *)
(***************************************************************************)
MaxIterations == 10
Tolerance == Lit(1, -6)

KeplerF(E, MeanAnomaly, Ecc) == FSub(FSub(E, FMul(Ecc, Sin(E))), MeanAnomaly)
KeplerFPrime(E, Ecc) == FSub(One, FMul(Ecc, Cos(E)))

RECURSIVE KeplerLoopLonger(_, _, _, _)
\* the loop, were its cap twelve iterations
KeplerLoopLonger(E, MeanAnomaly, Ecc, i) ==
    IF i >= 12 THEN << E >>
    ELSE Only({ IF FLt(FAbs(F), Tolerance) THEN << E >>
                ELSE << E >> \o KeplerLoopLonger(FSub(E, FDiv(F, KeplerFPrime(E, Ecc))),
                                                 MeanAnomaly, Ecc, i + 1) :
                F \in { KeplerF(E, MeanAnomaly, Ecc) } })

RECURSIVE KeplerLoop(_, _, _, _)
\* the loop from iteration i on: the values E takes, the current one first.
\* An iteration breaks where |F| is below the tolerance, and otherwise
\* updates E for the next one
KeplerLoop(E, MeanAnomaly, Ecc, i) ==
    IF i >= MaxIterations THEN << E >>
    ELSE Only({ IF FLt(FAbs(F), Tolerance) THEN << E >>
                ELSE << E >> \o KeplerLoop(FSub(E, FDiv(F, KeplerFPrime(E, Ecc))),
                                           MeanAnomaly, Ecc, i + 1) :
                F \in { KeplerF(E, MeanAnomaly, Ecc) } })

\* the values of E from the initial guess to the returned one
KeplerIterates(MeanAnomaly, Ecc) ==
    Only({ KeplerLoop(E, MeanAnomaly, Ecc, 0) : E \in { MeanAnomaly } })

SolveKeplersEquation(MeanAnomaly, Ecc) ==
    Only({ it[Len(it)] : it \in { KeplerIterates(MeanAnomaly, Ecc) } })

\* FVector(X cos - Y sin, X sin + Y cos, Z)
RotateAboutZ(v, CosA, SinA) ==
    Vec(FSub(FMul(v.X, CosA), FMul(v.Y, SinA)),
        FAdd(FMul(v.X, SinA), FMul(v.Y, CosA)),
        v.Z)

\* FVector(X, Y cos - Z sin, Y sin + Z cos)
RotateAboutX(v, CosA, SinA) ==
    Vec(v.X,
        FSub(FMul(v.Y, CosA), FMul(v.Z, SinA)),
        FAdd(FMul(v.Y, SinA), FMul(v.Z, CosA)))

TransformOrbitalToWorld(c, OrbitalVector) ==
    Only({ Only({ Only({
        RotateAboutZ(T2, Cos(c.ArgumentOfPeriapsis), Sin(c.ArgumentOfPeriapsis)) :
        T2 \in { RotateAboutX(T1, Cos(c.Inclination), Sin(c.Inclination)) } }) :
        T1 \in { RotateAboutZ(v, Cos(c.LongitudeOfAscendingNode),
                              Sin(c.LongitudeOfAscendingNode)) } }) :
        v \in { OrbitalVector } })

\* n = sqrt(mu / a^3)
EllipticalMeanMotion(c) ==
    Sqrt(FDiv(Mu, FMul(FMul(c.SemiMajorAxis, c.SemiMajorAxis), c.SemiMajorAxis)))

\* the mean anomaly UpdateEllipticalOrbit hands to SolveKeplersEquation
EllipticalMeanAnomaly(c) == FMul(EllipticalMeanMotion(c), c.SimulationTime)

\* MeanMotion, MeanAnomaly, the eccentric anomaly, TrueAnomaly, the radius and
\* the angular velocity, then position and velocity in the orbital plane
\* transformed to the world
UpdateEllipticalOrbit(c) ==
    Only({ Only({ Only({ Only({ Only({
        [c EXCEPT !.TrueAnomaly = Nu,
                  !.CurrentPosition =
                      TransformOrbitalToWorld(
                          c, Vec(FMul(Radius, CosNu), FMul(Radius, SinNu), Zero)),
                  !.CurrentVelocity =
                      TransformOrbitalToWorld(
                          c, Vec(FMul(FMul(FNeg(AngularVelocity), Radius), SinNu),
                                 FMul(FMul(AngularVelocity, Radius), CosNu),
                                 Zero))] :
        Radius \in { FDiv(FMul(c.SemiMajorAxis,
                               FSub(One, FMul(c.Eccentricity, c.Eccentricity))),
                          FAdd(One, FMul(c.Eccentricity, CosNu))) },
        AngularVelocity \in { FMul(n, FAdd(One, FMul(c.Eccentricity, CosNu))) } }) :
        CosNu \in { Cos(Nu) }, SinNu \in { Sin(Nu) } }) :
        Nu \in { FMul(Two, Atan(FMul(Sqrt(FDiv(FAdd(One, c.Eccentricity),
                                               FSub(One, c.Eccentricity))),
                                     Tan(FDiv(EccentricAnomaly, Two))))) } }) :
        EccentricAnomaly \in { SolveKeplersEquation(EllipticalMeanAnomaly(c), c.Eccentricity) } }) :
        n \in { EllipticalMeanMotion(c) } })

\* both only write a warning to the log
UpdateHyperbolicOrbit(c) == c
UpdateParabolicOrbit(c) == c

\* the propagation step, were an elliptical orbit to keep the velocity the
\* component held before it
UpdateOrbitalPositionKeepingVelocity(c) ==
    IF FLt(c.Eccentricity, One)
    THEN [UpdateEllipticalOrbit(c) EXCEPT !.CurrentVelocity = c.CurrentVelocity]
    ELSE IF FGt(c.Eccentricity, One) THEN UpdateHyperbolicOrbit(c)
    ELSE UpdateParabolicOrbit(c)

UpdateOrbitalPosition(c) ==
    IF FLt(c.Eccentricity, One) THEN UpdateEllipticalOrbit(c)
    ELSE IF FGt(c.Eccentricity, One) THEN UpdateHyperbolicOrbit(c)
    ELSE UpdateParabolicOrbit(c)

\* the UE_LOG lines of UpdateOrbitalPosition
UpdateOrbitalPositionLog(c) ==
    IF FLt(c.Eccentricity, One) THEN << >>
    ELSE IF FGt(c.Eccentricity, One) THEN << "Hyperbolic orbit update not implemented" >>
    ELSE << "Parabolic orbit update not implemented" >>
(***************************************************************************)
(* Forces                                                                  *)
(***************************************************************************)
SpacecraftMass == Lit(1000, 0)

CalculateAtmosphericDensity(Altitude) ==
    IF FLt(Altitude, Zero) THEN Lit(1225, -3)
    ELSE IF FLt(Altitude, Lit(11000, 0))
         THEN FMul(Lit(1225, -3),
                   Pow(FSub(One, FDiv(FMul(Lit(65, -4), Altitude), Lit(28815, -2))),
                       Lit(4256, -3)))
    ELSE IF FLt(Altitude, Lit(20000, 0))
         THEN FMul(Lit(3639, -4),
                   Exp(FDiv(FNeg(FSub(Altitude, Lit(11000, 0))), Lit(634162, -2))))
    ELSE FMul(Lit(88, -3), Exp(FDiv(FNeg(FSub(Altitude, Lit(20000, 0))), Lit(7400, 0))))

\* DragForce = 0.5 * density * DragCoefficient * CrossSectionalArea * speed * speed
ApplyAtmosphericDrag(c) ==
    Only({ IF FGt(AtmosphericDensity, Zero)
           THEN Only({ [c EXCEPT !.CurrentAcceleration =
                            VAdd(@, VDiv(VMul(VNeg(GetSafeNormal(c.CurrentVelocity)),
                                              FMul(FMul(FMul(FMul(FMul(Lit(5, -1),
                                                                       AtmosphericDensity),
                                                                  Two),
                                                             Lit(10, 0)),
                                                        VelocityMagnitude),
                                                   VelocityMagnitude)),
                                         Lit(1000, 0)))] :
                       VelocityMagnitude \in { Size(c.CurrentVelocity) } })
           ELSE c :
           AtmosphericDensity \in { CalculateAtmosphericDensity(
                                        FSub(Size(c.CurrentPosition), EarthRadius)) } })

UpdateOrbitalElementsFromThrust(c, ThrustAcceleration) ==
    CalculateOrbitalElements(
        [c EXCEPT !.CurrentVelocity = VAdd(@, VMul(ThrustAcceleration, TimeStep))])

\* ApplyThrustForces, were it not to ask for a positive thrust magnitude
ApplyThrustForcesUnguarded(c, owner, thrust) ==
    IF owner = "Spacecraft"
    THEN Only({ UpdateOrbitalElementsFromThrust(
                    [c EXCEPT !.CurrentAcceleration = VAdd(@, ThrustAcceleration)],
                    ThrustAcceleration) :
                ThrustAcceleration \in { VDiv(VMul(thrust.Vector, thrust.Magnitude),
                                              SpacecraftMass) } })
    ELSE c

\* thrust: what the owning spacecraft answers to GetThrustVector and
\* GetThrustMagnitude; owner: GetOwner()
ApplyThrustForces(c, owner, thrust) ==
    IF owner = "Spacecraft" /\ FGt(thrust.Magnitude, Zero)
    THEN Only({ UpdateOrbitalElementsFromThrust(
                    [c EXCEPT !.CurrentAcceleration = VAdd(@, ThrustAcceleration)],
                    ThrustAcceleration) :
                ThrustAcceleration \in { VDiv(VMul(thrust.Vector, thrust.Magnitude),
                                              SpacecraftMass) } })
    ELSE c

RECURSIVE GravityLoop(_, _, _, _)
\* the loop over CelestialBodies from index i on; acc is CurrentAcceleration
GravityLoop(bodies, pos, acc, i) ==
    IF i > Len(bodies) THEN acc
    ELSE Only({ Only({ Only({ GravityLoop(bodies, pos, a, i + 1) :
        a \in { IF FGt(Distance, Zero)
                THEN VAdd(acc, VDiv(VMul(GetSafeNormal(ToBody),
                                         FDiv(FMul(GravitationalConstant, bodies[i].Mass),
                                              FMul(Distance, Distance))),
                                    SpacecraftMass))
                ELSE acc } }) :
        Distance \in { Size(ToBody) } }) :
        ToBody \in { VSub(bodies[i].Position, pos) } })

\* the force model, were it to add to the acceleration it finds
ApplyGravitationalForcesAccumulating(c, bodies, owner, thrust) ==
    Only({ Only({ ApplyAtmosphericDrag(c2) :
                  c2 \in { ApplyThrustForces(c1, owner, thrust) } }) :
           c1 \in { [c EXCEPT !.CurrentAcceleration =
                         GravityLoop(bodies, c.CurrentPosition, c.CurrentAcceleration, 1)] } })

ApplyGravitationalForces(c, bodies, owner, thrust) ==
    Only({ Only({ ApplyAtmosphericDrag(c2) :
                  c2 \in { ApplyThrustForces(c1, owner, thrust) } }) :
           c1 \in { [c EXCEPT !.CurrentAcceleration =
                         GravityLoop(bodies, c.CurrentPosition, ZeroVector, 1)] } })

\* the catalog, were the loop over the bodies to move each body along its
\* velocity for one TimeStep
CelestialBodiesAdvanced(bodies) ==
    [i \in DOMAIN bodies |->
        [bodies[i] EXCEPT !.Position = VAdd(@, VMul(bodies[i].Velocity, TimeStep))]]

\* the catalog after ApplyGravitationalForces: the loop takes each body by
\* const reference
CelestialBodiesAfterForces(bodies) == bodies

(***************************************************************************)
(* Events                                                                  *)
(***************************************************************************)
\* the four checks, in the code's order, given the two locals
OrbitalEvents(c, CurrentRadius, EscapeVelocity) ==
    (IF /\ FGt(c.Eccentricity, Zero)
        /\ FLt(FAbs(FSub(CurrentRadius, FMul(c.SemiMajorAxis, FSub(One, c.Eccentricity)))),
               Lit(1000, 0))
     THEN << "OnPeriapsisReached" >> ELSE << >>)
    \o (IF /\ FGt(c.Eccentricity, Zero)
           /\ FLt(FAbs(FSub(CurrentRadius, FMul(c.SemiMajorAxis, FAdd(One, c.Eccentricity)))),
                  Lit(1000, 0))
        THEN << "OnApoapsisReached" >> ELSE << >>)
    \o (IF FLt(CurrentRadius, FAdd(EarthRadius, Lit(100000, 0)))
        THEN << "OnAtmosphericEntry" >> ELSE << >>)
    \o (IF FGt(Size(c.CurrentVelocity), EscapeVelocity)
        THEN << "OnEscapeVelocityReached" >> ELSE << >>)

\* the events, were they edge-triggered: an event the operation before
\* broadcast is not broadcast again
CheckOrbitalEventsOnce(c) ==
    Only({ SelectSeq(OrbitalEvents(c, CurrentRadius,
                                   Sqrt(FDiv(FMul(FMul(Two, GravitationalConstant), EarthMass),
                                             CurrentRadius))),
                     LAMBDA ev : \A j \in DOMAIN Broadcast : Broadcast[j] # ev) :
           CurrentRadius \in { Size(c.CurrentPosition) } })

\* the events, were the escape velocity taken at the stored semi-major axis
\* instead of the current radius
CheckOrbitalEventsByElements(c) ==
    Only({ OrbitalEvents(c, CurrentRadius,
                         Sqrt(FDiv(FMul(FMul(Two, GravitationalConstant), EarthMass),
                                   c.SemiMajorAxis))) :
           CurrentRadius \in { Size(c.CurrentPosition) } })

\* the delegates CheckOrbitalEvents broadcasts, in order
CheckOrbitalEvents(c) ==
    Only({ OrbitalEvents(c, CurrentRadius,
                         Sqrt(FDiv(FMul(FMul(Two, GravitationalConstant), EarthMass),
                                   CurrentRadius))) :
           CurrentRadius \in { Size(c.CurrentPosition) } })

(***************************************************************************)
(* Integrator, time acceleration, transfer planning                        *)
(***************************************************************************)
\* the integrator, were it to advance SimulationTime by its step as well
UpdatePhysicsAdvancingTime(c) ==
    Only({ Only({ [c EXCEPT !.CurrentVelocity = v,
                            !.CurrentPosition = VAdd(@, VMul(v, DeltaTime)),
                            !.CurrentAcceleration = ZeroVector,
                            !.SimulationTime = FAdd(@, DeltaTime)] :
                  v \in { VAdd(c.CurrentVelocity, VMul(c.CurrentAcceleration, DeltaTime)) } }) :
           DeltaTime \in { FMul(TimeStep, c.TimeAcceleration) } })

\* the integrator, were the position to move by the velocity of before the step
UpdatePhysicsExplicit(c) ==
    Only({ [c EXCEPT !.CurrentVelocity = VAdd(@, VMul(c.CurrentAcceleration, DeltaTime)),
                     !.CurrentPosition = VAdd(@, VMul(c.CurrentVelocity, DeltaTime)),
                     !.CurrentAcceleration = ZeroVector] :
           DeltaTime \in { FMul(TimeStep, c.TimeAcceleration) } })

\* the position moves by the velocity already updated
UpdatePhysics(c) ==
    Only({ Only({ [c EXCEPT !.CurrentVelocity = v,
                            !.CurrentPosition = VAdd(@, VMul(v, DeltaTime)),
                            !.CurrentAcceleration = ZeroVector] :
                  v \in { VAdd(c.CurrentVelocity, VMul(c.CurrentAcceleration, DeltaTime)) } }) :
           DeltaTime \in { FMul(TimeStep, c.TimeAcceleration) } })

\* the stored value, were it only capped from above
SetTimeAccelerationValueNoFloor(Acceleration) ==
    IF FLt(Acceleration, Lit(1000, 0)) THEN Acceleration ELSE Lit(1000, 0)

\* the value SetTimeAcceleration stores
SetTimeAccelerationValue(Acceleration) == Clamp(Acceleration, Lit(1, -1), Lit(1000, 0))

\* the Hohmann transfer between the radii R1 and R2
CalculateOrbitalTransfer(c, TargetPosition) ==
    Only({ Only({ FTransferOrbit(a,
                                 FDiv(FSub(R2, R1), FAdd(R2, R1)),
                                 FMul(Pi, Sqrt(FDiv(FMul(FMul(a, a), a), Mu))),
                                 FSub(Sqrt(FMul(Mu, FSub(FDiv(Two, R1), FDiv(One, a)))),
                                      Sqrt(FDiv(Mu, R1)))) :
                  a \in { FDiv(FAdd(R1, R2), Two) } }) :
           R1 \in { Size(c.CurrentPosition) }, R2 \in { Size(TargetPosition) } })

GetOrbitalPeriod(c) ==
    IF FGt(c.SemiMajorAxis, Zero)
    THEN FMul(FMul(Two, Pi),
              Sqrt(FDiv(FMul(FMul(c.SemiMajorAxis, c.SemiMajorAxis), c.SemiMajorAxis),
                        FMul(GravitationalConstant, EarthMass))))
    ELSE Zero

(***************************************************************************)
(* The world's timer manager                                               *)
(***************************************************************************)
\* the smallest handle no timer uses
FreshHandle(timers) ==
    CHOOSE h \in 1..(Cardinality(timers) + 1) : \A t \in timers : t.Handle # h

\* ClearTimer, were it to drop every timer of the world
ClearAllTimers(timers, handle) == { t \in timers : FALSE }

\* ClearTimer, were it to leave the timer running
ClearTimerKeeping(timers, handle) == timers

\* FTimerManager::ClearTimer
ClearTimer(timers, handle) == { t \in timers : t.Handle # handle }

\* the handle SetTimer hands out
SetTimerHandle(timers, handle) == FreshHandle(ClearTimer(timers, handle))

\* FTimerManager::SetTimer, looping: a handle that names a timer is cleared first
SetTimer(timers, handle, rate) ==
    ClearTimer(timers, handle)
        \cup { [Handle |-> SetTimerHandle(timers, handle), Rate |-> rate] }
MaxSteps == 3

NoThrust == [Vector |-> ZeroVector, Magnitude |-> Zero]
\* 62.5 kN along (2000, -500, -6000): a velocity change of (2000, -500, -6000)
\* m/s in one TimeStep
CircularizingBurn ==
    [Vector |-> Vec(Lit(2000, 0), Lit(-500, 0), Lit(-6000, 0)),
     Magnitude |-> Lit(62500, 0)]
Thrusts == { NoThrust, CircularizingBurn }

DeltaTimes == { Zero, Lit(16, -3) }

Accelerations == { Lit(-1, 0), Lit(5, -2), Lit(10, 0), Lit(5000, 0) }

\* GetActorLocation() and GetVelocity() of the owning spacecraft at BeginPlay
ActorStates ==
    { [Location |-> ZeroVector, Velocity |-> ZeroVector],
      \* 400 km above the surface, inclined, below circular speed
      [Location |-> Vec(Lit(6771, 3), Zero, Zero),
       Velocity |-> Vec(Zero, Lit(5000, 0), Lit(5000, 0))],
      \* 400 km above the surface, inclined, climbing, above escape speed;
      \* CircularizingBurn leaves it on the equatorial circle of that radius
      [Location |-> Vec(Zero, Lit(6771, 3), Zero),
       Velocity |-> Vec(Lit(-9672491, -3), Lit(500, 0), Lit(6000, 0))] }

\* the geostationary radius, a radius 200 km below the spacecraft's, and the
\* centre of the Earth
Targets == { Vec(Lit(42164, 3), Zero, Zero), Vec(Zero, Lit(6571, 3), Zero), ZeroVector }

\* the arguments of SolveKeplersEquation: mean anomalies and eccentricities
\* where seven decimal digits decide convergence as single precision does
MaxCalls == 2
KeplerAnomalies ==
    { Zero, Lit(5, -2), Lit(1, -1), Lit(2, -1), Lit(3, -1), Lit(4, -1), Lit(5, -1),
      Lit(6, -1), Lit(8, -1), One }
KeplerEccentricities == { Zero, Lit(3, -1), Lit(5, -1), Lit(9, -1), Lit(99, -2) }

(***************************************************************************)
(* The component's life                                                    *)
(***************************************************************************)
\* the fields of a component after its constructor, by its owner
Constructed(owner) ==
    [State |-> [SemiMajorAxis |-> Zero, Eccentricity |-> Zero, Inclination |-> Zero,
                ArgumentOfPeriapsis |-> Zero, LongitudeOfAscendingNode |-> Zero,
                TrueAnomaly |-> Zero,
                CurrentPosition |-> ZeroVector, CurrentVelocity |-> ZeroVector,
                CurrentAcceleration |-> ZeroVector,
                SimulationTime |-> Zero, TimeAcceleration |-> One],
     CelestialBodies |-> InitializeCelestialBodies,
     TransferOrbit |-> FTransferOrbit(Zero, Zero, Zero, Zero),
     PhysicsTimer |-> 0, Owner |-> owner, pc |-> "constructed"]

Init ==
    /\ SemiMajorAxis = Zero
    /\ Eccentricity = Zero
    /\ Inclination = Zero
    /\ ArgumentOfPeriapsis = Zero
    /\ LongitudeOfAscendingNode = Zero
    /\ TrueAnomaly = Zero
    /\ CurrentPosition = ZeroVector
    /\ CurrentVelocity = ZeroVector
    /\ CurrentAcceleration = ZeroVector
    /\ SimulationTime = Zero
    /\ TimeAcceleration = One
    /\ CelestialBodies = InitializeCelestialBodies
    /\ TransferOrbit = FTransferOrbit(Zero, Zero, Zero, Zero)
    /\ PhysicsTimer = 0
    /\ Timers = {}
    /\ Owner \in { "Spacecraft", "Actor" }
    /\ pc = "constructed"
    /\ Broadcast = << >>
    /\ BroadcastArgs = << >>
    /\ Log = << >>
    /\ lastOp = [op |-> "UOrbitalMechanics"]
    /\ prevBroadcast = << >>
    /\ steps = 0
    /\ kCalls = {}
    /\ Other = Constructed("Actor")

\* InitializeSpacecraft, for an owner that is a spacecraft
InitializeSpacecraft(c, actor) ==
    CalculateOrbitalElements([c EXCEPT !.CurrentPosition = actor.Location,
                                       !.CurrentVelocity = actor.Velocity])

BeginPlay(actor) ==
    /\ pc = "constructed"
    /\ pc' = "playing"
    /\ \E c \in { CalculateOrbitalElements(This) } :
           Store(IF Owner = "Spacecraft" THEN InitializeSpacecraft(c, actor) ELSE c)
    /\ Timers' = SetTimer(Timers, PhysicsTimer, TimeStep)
    /\ PhysicsTimer' = SetTimerHandle(Timers, PhysicsTimer)
    /\ Broadcast' = << >>
    /\ BroadcastArgs' = << >>
    /\ Log' = IF Owner = "Spacecraft" THEN << "Spacecraft initialized at position" >>
              ELSE << >>
    /\ lastOp' = [op |-> "BeginPlay", actor |-> actor]
    /\ prevBroadcast' = << >>
    /\ UNCHANGED << CelestialBodies, TransferOrbit, Owner, steps, kCalls, Other >>

\* one more operation fits the bound
Playing == pc = "playing" /\ steps < MaxSteps

TickComponent(DeltaTime, thrust) ==
    /\ Playing
    /\ Owner = "Actor" => thrust = NoThrust
    /\ \E c0 \in { [This EXCEPT !.SimulationTime =
                        FAdd(@, FMul(DeltaTime, TimeAcceleration))] } :
       \E c1 \in { UpdateOrbitalPosition(c0) } :
       \E c2 \in { ApplyGravitationalForces(c1, CelestialBodies, Owner, thrust) } :
           /\ Store(c2)
           /\ Broadcast' = CheckOrbitalEvents(c2)
           /\ BroadcastArgs' = << >>
           /\ Log' = UpdateOrbitalPositionLog(c0)
    /\ lastOp' = [op |-> "TickComponent", DeltaTime |-> DeltaTime, thrust |-> thrust]
    /\ prevBroadcast' = IF lastOp.op = "TickComponent" THEN Broadcast ELSE << >>
    /\ steps' = steps + 1
    /\ CelestialBodies' = CelestialBodiesAfterForces(CelestialBodies)
    /\ UNCHANGED << TransferOrbit, PhysicsTimer, Timers, Owner, pc, kCalls, Other >>

\* the physics timer fires
UpdatePhysicsTimer ==
    /\ Playing
    /\ \E t \in Timers : TRUE
    /\ Store(UpdatePhysics(This))
    /\ Broadcast' = << >>
    /\ BroadcastArgs' = << >>
    /\ Log' = << >>
    /\ lastOp' = [op |-> "UpdatePhysics"]
    /\ prevBroadcast' = << >>
    /\ steps' = steps + 1
    /\ UNCHANGED << CelestialBodies, TransferOrbit, PhysicsTimer, Timers, Owner, pc,
                    kCalls, Other >>

SetTimeAcceleration(Acceleration) ==
    /\ Playing
    /\ \E ta \in { SetTimeAccelerationValue(Acceleration) } :
       \E cleared \in { ClearTimer(Timers, PhysicsTimer) } :
           /\ Store([This EXCEPT !.TimeAcceleration = ta])
           /\ Timers' = SetTimer(cleared, 0, FDiv(TimeStep, ta))
           /\ PhysicsTimer' = SetTimerHandle(cleared, 0)
    /\ Broadcast' = << >>
    /\ BroadcastArgs' = << >>
    /\ Log' = << >>
    /\ lastOp' = [op |-> "SetTimeAcceleration", Acceleration |-> Acceleration]
    /\ prevBroadcast' = << >>
    /\ steps' = steps + 1
    /\ UNCHANGED << CelestialBodies, TransferOrbit, Owner, pc, kCalls, Other >>

\* the planner, were it to execute the burn it plans: the velocity gains
\* DeltaV along its direction
CalculateOrbitalTransferAndBurn(TargetPosition) ==
    /\ Playing
    /\ TransferOrbit' = CalculateOrbitalTransfer(This, TargetPosition)
    /\ CurrentVelocity' = VAdd(CurrentVelocity,
                               VMul(GetSafeNormal(CurrentVelocity), TransferOrbit'.DeltaV))
    /\ Broadcast' = << "OnTransferCalculated" >>
    /\ BroadcastArgs' = << TransferOrbit' >>
    /\ Log' = << >>
    /\ lastOp' = [op |-> "CalculateOrbitalTransfer", TargetPosition |-> TargetPosition]
    /\ prevBroadcast' = << >>
    /\ steps' = steps + 1
    /\ UNCHANGED << SemiMajorAxis, Eccentricity, Inclination, ArgumentOfPeriapsis,
                    LongitudeOfAscendingNode, TrueAnomaly, CurrentPosition,
                    CurrentAcceleration, SimulationTime,
                    TimeAcceleration, CelestialBodies, PhysicsTimer, Timers, Owner,
                    pc, kCalls, Other >>

CalculateOrbitalTransferCall(TargetPosition) ==
    /\ Playing
    /\ TransferOrbit' = CalculateOrbitalTransfer(This, TargetPosition)
    /\ Broadcast' = << "OnTransferCalculated" >>
    /\ BroadcastArgs' = << TransferOrbit' >>
    /\ Log' = << >>
    /\ lastOp' = [op |-> "CalculateOrbitalTransfer", TargetPosition |-> TargetPosition]
    /\ prevBroadcast' = << >>
    /\ steps' = steps + 1
    /\ UNCHANGED << SemiMajorAxis, Eccentricity, Inclination, ArgumentOfPeriapsis,
                    LongitudeOfAscendingNode, TrueAnomaly, CurrentPosition,
                    CurrentVelocity, CurrentAcceleration, SimulationTime,
                    TimeAcceleration, CelestialBodies, PhysicsTimer, Timers, Owner,
                    pc, kCalls, Other >>

\* the public (BlueprintCallable) CalculateOrbitalElements, called by the host
CalculateOrbitalElementsCall ==
    /\ Playing
    /\ Store(CalculateOrbitalElements(This))
    /\ Broadcast' = << >>
    /\ BroadcastArgs' = << >>
    /\ Log' = << >>
    /\ lastOp' = [op |-> "CalculateOrbitalElements"]
    /\ prevBroadcast' = << >>
    /\ steps' = steps + 1
    /\ UNCHANGED << CelestialBodies, TransferOrbit, PhysicsTimer, Timers, Owner, pc,
                    kCalls, Other >>

\* the public (BlueprintCallable) UpdateOrbitalPosition, called by the host
UpdateOrbitalPositionCall(DeltaTime) ==
    /\ Playing
    /\ Store(UpdateOrbitalPosition(This))
    /\ Broadcast' = << >>
    /\ BroadcastArgs' = << >>
    /\ Log' = UpdateOrbitalPositionLog(This)
    /\ lastOp' = [op |-> "UpdateOrbitalPosition", DeltaTime |-> DeltaTime]
    /\ prevBroadcast' = << >>
    /\ steps' = steps + 1
    /\ UNCHANGED << CelestialBodies, TransferOrbit, PhysicsTimer, Timers, Owner, pc,
                    kCalls, Other >>

Next ==
    \/ \E actor \in ActorStates : BeginPlay(actor)
    \/ \E d \in DeltaTimes, t \in Thrusts : TickComponent(d, t)
    \/ UpdatePhysicsTimer
    \/ \E x \in Accelerations : SetTimeAcceleration(x)
    \/ \E p \in Targets : CalculateOrbitalTransferCall(p)
    \/ CalculateOrbitalElementsCall
    \/ \E d \in DeltaTimes : UpdateOrbitalPositionCall(d)

Spec == Init /\ [][Next]_vars

(***************************************************************************)
(* SolveKeplersEquation on its own: the calls a caller makes, each with    *)
(* the values E took and the value handed back                             *)
(***************************************************************************)
SolveKeplersEquationCall(MeanAnomaly, Ecc) ==
    /\ Cardinality(kCalls) < MaxCalls
    /\ \E it \in { KeplerIterates(MeanAnomaly, Ecc) } :
           kCalls' = kCalls \cup
               { [MeanAnomaly |-> MeanAnomaly, Eccentricity |-> Ecc,
                  Iterates |-> it, Result |-> it[Len(it)]] }
    /\ UNCHANGED << SemiMajorAxis, Eccentricity, Inclination, ArgumentOfPeriapsis,
                    LongitudeOfAscendingNode, TrueAnomaly, CurrentPosition,
                    CurrentVelocity, CurrentAcceleration, SimulationTime,
                    TimeAcceleration, CelestialBodies, TransferOrbit, PhysicsTimer,
                    Timers, Owner, pc, Broadcast, BroadcastArgs, Log, lastOp, prevBroadcast,
                    steps, Other >>

InitKepler == Init

NextKepler ==
    \E M \in KeplerAnomalies \cup { c.Result : c \in kCalls },
       e \in KeplerEccentricities : SolveKeplersEquationCall(M, e)

SpecKepler == InitKepler /\ [][NextKepler]_vars

(***************************************************************************)
(* Two components in one world: the variables above are the fields of the  *)
(* component the host operates on, Other holds the fields of the second    *)
(* one, and both have their timers in the world's timer manager            *)
(***************************************************************************)
MaxFleetSteps == 2

\* the fields of the component operated on
Self ==
    [State |-> This, CelestialBodies |-> CelestialBodies,
     TransferOrbit |-> TransferOrbit, PhysicsTimer |-> PhysicsTimer,
     Owner |-> Owner, pc |-> pc]

\* the host turns to the other component
OtherComponent ==
    /\ Store(Other.State)
    /\ CelestialBodies' = Other.CelestialBodies
    /\ TransferOrbit' = Other.TransferOrbit
    /\ PhysicsTimer' = Other.PhysicsTimer
    /\ Owner' = Other.Owner
    /\ pc' = Other.pc
    /\ Other' = Self
    /\ Broadcast' = << >>
    /\ BroadcastArgs' = << >>
    /\ Log' = << >>
    /\ lastOp' = [op |-> "OtherComponent"]
    /\ prevBroadcast' = << >>
    /\ UNCHANGED << Timers, steps, kCalls >>

InitFleet == Init

NextFleet ==
    \/ \E actor \in ActorStates : BeginPlay(actor)
    \/ steps < MaxFleetSteps /\ \E t \in Thrusts : TickComponent(Lit(16, -3), t)
    \/ steps < MaxFleetSteps /\ UpdatePhysicsTimer
    \/ steps < MaxFleetSteps /\ SetTimeAcceleration(Lit(10, 0))
    \/ steps < MaxFleetSteps /\ \E p \in Targets : CalculateOrbitalTransferCall(p)
    \/ OtherComponent

SpecFleet == InitFleet /\ [][NextFleet]_vars

(***************************************************************************)
(* Unperturbed propagation: a spacecraft on an ellipse, ticked without     *)
(* thrust by fractions of its orbital period                               *)
(***************************************************************************)
\* inclined ellipses about the Earth, entered at the apoapsis, at the
\* periapsis and in between (climbing)
OrbitStates ==
    { [Location |-> Vec(Lit(6771, 3), Zero, Zero),
       Velocity |-> Vec(Zero, Lit(5000, 0), Lit(5000, 0))],
      [Location |-> Vec(Zero, Lit(7000, 3), Zero),
       Velocity |-> Vec(Lit(-8000, 0), Zero, Lit(1000, 0))],
      [Location |-> Vec(Lit(6771, 3), Zero, Zero),
       Velocity |-> Vec(Lit(1000, 0), Lit(5500, 0), Lit(5500, 0))] }

PeriodFractions == { Lit(25, -2), Lit(5, -1), Lit(75, -2), One }

InitOrbit == Init /\ Owner = "Spacecraft"

NextOrbit ==
    \/ \E actor \in OrbitStates : BeginPlay(actor)
    \/ \E f \in PeriodFractions :
           TickComponent(FMul(GetOrbitalPeriod(This), f), NoThrust)

SpecOrbit == InitOrbit /\ [][NextOrbit]_vars
(***************************************************************************)
(* TransformOrbitalToWorld on its own: element angles that are multiples   *)
(* of a quarter turn, unit vectors of the orbital plane and its normal     *)
(***************************************************************************)
QuarterTurns == { Zero, HalfPi, Pi, FMul(Lit(15, -1), Pi) }
OrbitalVectors == { Vec(One, Zero, Zero), Vec(Zero, One, Zero), Vec(Zero, Zero, One) }

TransformOrbitalToWorldCall(OrbitalVector) ==
    /\ Cardinality(kCalls) < MaxCalls
    /\ kCalls' = kCalls \cup
           { [OrbitalVector |-> OrbitalVector,
              Result |-> TransformOrbitalToWorld(This, OrbitalVector)] }
    /\ UNCHANGED << SemiMajorAxis, Eccentricity, Inclination, ArgumentOfPeriapsis,
                    LongitudeOfAscendingNode, TrueAnomaly, CurrentPosition,
                    CurrentVelocity, CurrentAcceleration, SimulationTime,
                    TimeAcceleration, CelestialBodies, TransferOrbit, PhysicsTimer,
                    Timers, Owner, pc, Broadcast, BroadcastArgs, Log, lastOp, prevBroadcast,
                    steps, Other >>

InitTransform ==
    /\ SemiMajorAxis = Zero
    /\ Eccentricity = Zero
    /\ Inclination \in { Zero, HalfPi, Pi }
    /\ ArgumentOfPeriapsis \in QuarterTurns
    /\ LongitudeOfAscendingNode \in QuarterTurns
    /\ TrueAnomaly = Zero
    /\ CurrentPosition = ZeroVector
    /\ CurrentVelocity = ZeroVector
    /\ CurrentAcceleration = ZeroVector
    /\ SimulationTime = Zero
    /\ TimeAcceleration = One
    /\ CelestialBodies = InitializeCelestialBodies
    /\ TransferOrbit = FTransferOrbit(Zero, Zero, Zero, Zero)
    /\ PhysicsTimer = 0
    /\ Timers = {}
    /\ Owner = "Spacecraft"
    /\ pc = "constructed"
    /\ Broadcast = << >>
    /\ BroadcastArgs = << >>
    /\ Log = << >>
    /\ lastOp = [op |-> "UOrbitalMechanics"]
    /\ prevBroadcast = << >>
    /\ steps = 0
    /\ kCalls = {}
    /\ Other = Constructed("Actor")

NextTransform == \E v \in OrbitalVectors : TransformOrbitalToWorldCall(v)

SpecTransform == InitTransform /\ [][NextTransform]_vars


(***************************************************************************)
(* Properties                                                              *)
(***************************************************************************)
\* the number of times the last operation broadcast the delegate ev
Count(ev) == Cardinality({ j \in DOMAIN Broadcast : Broadcast[j] = ev })

\* the last operation was a tick
Ticked == lastOp.op = "TickComponent"

\* radius and speed of the state the component holds
RadiusNow == Size(CurrentPosition)
SpeedNow == Size(CurrentVelocity)

\* the distance of the current radius from a(1 - e) and from a(1 + e)
PeriapsisGap == FAbs(FSub(RadiusNow, FMul(SemiMajorAxis, FSub(One, Eccentricity))))
ApoapsisGap == FAbs(FSub(RadiusNow, FMul(SemiMajorAxis, FAdd(One, Eccentricity))))

\* C1: an UpdateOrbitalPosition on Eccentricity >= 1 either changes position,
\* velocity or true anomaly, or hands its caller a status (a return value or
\* a broadcast); a warning line in the log is not a status the caller gets.
C1_UnsupportedRegimeReported ==
    [][(lastOp'.op = "UpdateOrbitalPosition" /\ FGe(Eccentricity, One))
         => \/ CurrentPosition' # CurrentPosition
            \/ CurrentVelocity' # CurrentVelocity
            \/ TrueAnomaly' # TrueAnomaly
            \/ Broadcast' # << >>]_vars

\* the value the range [0.1, 1000] leaves of x
StoredFor(x) ==
    IF FLt(x, Lit(1, -1)) THEN Lit(1, -1)
    ELSE IF FGt(x, Lit(1000, 0)) THEN Lit(1000, 0)
    ELSE x

\* C2: TimeAcceleration is always within [0.1, 1000]; SetTimeAcceleration(x)
\* stores x when x is in the range, 0.1 when x < 0.1 and 1000 when x > 1000.
C2_TimeAccelerationInRange ==
    /\ FGe(TimeAcceleration, Lit(1, -1))
    /\ FLe(TimeAcceleration, Lit(1000, 0))
    /\ lastOp.op = "SetTimeAcceleration"
         => TimeAcceleration = StoredFor(lastOp.Acceleration)

\* a negative request was stored as 0.1
C2_Witness ==
    /\ lastOp.op = "SetTimeAcceleration"
    /\ lastOp.Acceleration = Lit(-1, 0)
    /\ TimeAcceleration = Lit(1, -1)

\* the conditions of the four events on the state the tick leaves
PeriapsisCondition == FGt(Eccentricity, Zero) /\ FLt(PeriapsisGap, Lit(1000, 0))
ApoapsisCondition == FGt(Eccentricity, Zero) /\ FLt(ApoapsisGap, Lit(1000, 0))
AtmosphereCondition == FLt(RadiusNow, Lit(6471, 3))
EscapeCondition == FGt(SpeedNow, Sqrt(FDiv(FMul(Two, Mu), RadiusNow)))

\* C3: events are level-triggered: a tick broadcasts each event once when
\* its condition holds on the state of that tick, whatever the tick before
\* broadcast, and does not broadcast it when the condition does not hold.
C3_LevelTriggered ==
    Ticked =>
        /\ Count("OnPeriapsisReached") = (IF PeriapsisCondition THEN 1 ELSE 0)
        /\ Count("OnApoapsisReached") = (IF ApoapsisCondition THEN 1 ELSE 0)
        /\ Count("OnAtmosphericEntry") = (IF AtmosphereCondition THEN 1 ELSE 0)
        /\ Count("OnEscapeVelocityReached") = (IF EscapeCondition THEN 1 ELSE 0)

\* two consecutive ticks have both broadcast the escape-velocity event
C3_Witness ==
    /\ Ticked
    /\ \E j \in DOMAIN prevBroadcast : prevBroadcast[j] = "OnEscapeVelocityReached"
    /\ Count("OnEscapeVelocityReached") = 1

\* C4: at every tick, for every eccentricity e >= 0 (the circular e = 0
\* included), PeriapsisReached is raised iff |CurrentRadius - a(1 - e)| < 1000
\* and ApoapsisReached iff |CurrentRadius - a(1 + e)| < 1000.
C4_ApsisEventsIffWithinOneKm ==
    (Ticked /\ FGe(Eccentricity, Zero)) =>
        /\ (Count("OnPeriapsisReached") = 1) <=> FLt(PeriapsisGap, Lit(1000, 0))
        /\ (Count("OnApoapsisReached") = 1) <=> FLt(ApoapsisGap, Lit(1000, 0))

\* C5: a tick raises EscapeVelocityReached iff the current speed exceeds
\* sqrt(2 mu / CurrentRadius), on the current position and velocity; at the
\* radius EarthRadius + 400000 it is raised above about 10.85 km/s and not
\* below.
C5_EscapeIffAboveThreshold ==
    Ticked =>
        /\ (Count("OnEscapeVelocityReached") = 1) <=> EscapeCondition
        /\ RadiusNow = FAdd(EarthRadius, Lit(400000, 0)) =>
              /\ FGe(SpeedNow, Lit(10860, 0)) => Count("OnEscapeVelocityReached") = 1
              /\ FLe(SpeedNow, Lit(10840, 0)) => Count("OnEscapeVelocityReached") = 0

\* a tick at the radius EarthRadius + 400000 has raised the event
C5_Witness ==
    /\ Ticked
    /\ RadiusNow = FAdd(EarthRadius, Lit(400000, 0))
    /\ FGt(SpeedNow, Lit(10860, 0))
    /\ Count("OnEscapeVelocityReached") = 1

\* the last operation ended with CalculateOrbitalElements on the position and
\* velocity the component now holds
ElementsCalculated ==
    \/ lastOp.op \in { "BeginPlay", "CalculateOrbitalElements" }
    \/ Ticked /\ Owner = "Spacecraft" /\ FGt(lastOp.thrust.Magnitude, Zero)

\* the node vector N = z x H of the current position and velocity
NodeVectorNow ==
    CrossProduct(Vec(Zero, Zero, One), CrossProduct(CurrentPosition, CurrentVelocity))

\* C6: after CalculateOrbitalElements on a state of zero node vector and zero
\* eccentricity, LongitudeOfAscendingNode = 0 and ArgumentOfPeriapsis = 0,
\* whatever the two held before.
C6_EquatorialCircularAnglesZero ==
    (ElementsCalculated /\ NodeVectorNow = ZeroVector /\ Eccentricity = Zero)
        => LongitudeOfAscendingNode = Zero /\ ArgumentOfPeriapsis = Zero

\* C7: no reachable state holds an infinite or NaN position, velocity or
\* orbital element: a zero radius or semi-major axis yields a safe default.
C7_StateFinite ==
    /\ VecFinite(CurrentPosition)
    /\ VecFinite(CurrentVelocity)
    /\ IsFinite(SemiMajorAxis)
    /\ IsFinite(Eccentricity)
    /\ IsFinite(Inclination)
    /\ IsFinite(ArgumentOfPeriapsis)
    /\ IsFinite(LongitudeOfAscendingNode)
    /\ IsFinite(TrueAnomaly)

\* the residual |E - e sin(E) - M| of the value a call returned
Residual(call) == FAbs(KeplerF(call.Result, call.MeanAnomaly, call.Eccentricity))

\* the call used all its iterations and its result is not within tolerance
Exhausted(call) ==
    Len(call.Iterates) = MaxIterations + 1 /\ ~FLt(Residual(call), Tolerance)

\* C8: a call that exhausts the iteration cap without reaching the tolerance
\* hands back something its caller can tell from a converged result; the
\* caller gets one float, so the two must differ in that value.
C8_NonConvergenceSignalled ==
    \A x, y \in kCalls :
        (Exhausted(x) /\ FLt(Residual(y), Tolerance)) => x.Result # y.Result

\* the residual of the j-th value E takes in the call
ResidualAt(call, j) ==
    FAbs(KeplerF(call.Iterates[j], call.MeanAnomaly, call.Eccentricity))

\* C9: SolveKeplersEquation starts from E = MeanAnomaly, makes at most 10
\* Newton-Raphson updates, and stops at the first E whose residual is below
\* the tolerance 1e-6, which it returns.
C9_KeplerBounded ==
    \A call \in kCalls :
        /\ Len(call.Iterates) - 1 <= 10
        /\ call.Iterates[1] = call.MeanAnomaly
        /\ call.Result = call.Iterates[Len(call.Iterates)]
        /\ \A j \in 1..(Len(call.Iterates) - 1) :
               ~FLt(ResidualAt(call, j), Lit(1, -6))
        /\ Len(call.Iterates) - 1 < 10 => FLt(Residual(call), Lit(1, -6))

\* one call made all 10 updates, another stopped early after at least one
C9_Witness ==
    \E x, y \in kCalls :
        /\ Len(x.Iterates) - 1 = 10
        /\ Len(y.Iterates) \in 2..10

\* C10: for eccentricity in [0, 0.99] and mean anomaly in [0, 2 pi), the
\* value returned satisfies |E - e sin(E) - M| < 1e-6.
C10_KeplerConverges ==
    \A call \in kCalls :
        (/\ FGe(call.Eccentricity, Zero) /\ FLe(call.Eccentricity, Lit(99, -2))
         /\ FGe(call.MeanAnomaly, Zero) /\ FLt(call.MeanAnomaly, TwoPi))
            => FLt(Residual(call), Lit(1, -6))

\* C11: after CalculateOrbitalTransfer between two positive radii r1 (the
\* current position's) and r2 (the target's), in either order, the stored
\* TransferOrbit has SemiMajorAxis (r1 + r2) / 2 and Eccentricity
\* |r2 - r1| / (r2 + r1), which is not negative and is below one.
TransferRadii == << Size(CurrentPosition), Size(lastOp.TargetPosition) >>

C11_TransferEccentricity ==
    (/\ lastOp.op = "CalculateOrbitalTransfer"
     /\ FGt(TransferRadii[1], Zero)
     /\ FGt(TransferRadii[2], Zero))
    => /\ TransferOrbit.SemiMajorAxis
              = FDiv(FAdd(TransferRadii[1], TransferRadii[2]), Two)
       /\ TransferOrbit.Eccentricity
              = FDiv(FAbs(FSub(TransferRadii[2], TransferRadii[1])),
                     FAdd(TransferRadii[2], TransferRadii[1]))
       /\ FGe(TransferOrbit.Eccentricity, Zero)
       /\ FLt(TransferOrbit.Eccentricity, One)

\* C12: a step of CalculateOrbitalTransfer broadcasts OnTransferCalculated
\* once, carrying the TransferOrbit it stored, and leaves position, velocity,
\* acceleration, the six elements, SimulationTime, TimeAcceleration and the
\* physics timer as they were.
C12_TransferOnlyPlans ==
    [][lastOp'.op = "CalculateOrbitalTransfer"
       => /\ Broadcast' = << "OnTransferCalculated" >>
          /\ BroadcastArgs' = << TransferOrbit' >>
          /\ TransferOrbit' = CalculateOrbitalTransfer(This, lastOp'.TargetPosition)
          /\ UNCHANGED << CurrentPosition, CurrentVelocity, CurrentAcceleration,
                          SemiMajorAxis, Eccentricity, Inclination,
                          ArgumentOfPeriapsis, LongitudeOfAscendingNode, TrueAnomaly,
                          SimulationTime, TimeAcceleration, PhysicsTimer, Timers >>]_vars

\* a transfer to the geostationary radius is planned and broadcast
C12_Witness ==
    /\ lastOp.op = "CalculateOrbitalTransfer"
    /\ FGt(TransferOrbit.DeltaV, Zero)
    /\ FGt(TransferOrbit.SemiMajorAxis, Lit(2, 7))
    /\ BroadcastArgs = << TransferOrbit >>
    /\ FGt(Size(CurrentVelocity), Zero)

\* C13: SimulationTime never decreases; a step of TickComponent adds
\* DeltaTime * TimeAcceleration to it, with the TimeAcceleration in force when
\* the tick starts, and a step of any other operation leaves it as it was.
C13_SimulationTimeMonotonic ==
    [][/\ FGe(SimulationTime', SimulationTime)
       /\ lastOp'.op = "TickComponent"
          => SimulationTime'
                 = FAdd(SimulationTime, FMul(lastOp'.DeltaTime, TimeAcceleration))
       /\ lastOp'.op \in { "UpdatePhysics", "SetTimeAcceleration",
                           "CalculateOrbitalTransfer", "CalculateOrbitalElements",
                           "UpdateOrbitalPosition" }
          => SimulationTime' = SimulationTime]_vars

\* a tick of 0.016 s under a time acceleration of 10 has advanced the time
\* by 0.16 s
C13_Witness ==
    /\ lastOp.op = "TickComponent"
    /\ lastOp.DeltaTime = Lit(16, -3)
    /\ TimeAcceleration = Lit(10, 0)
    /\ SimulationTime = Lit(16, -2)

\* C14: the step UpdatePhysics integrates with is TimeStep, whatever
\* SetTimeAcceleration calls came before: velocity gains acceleration *
\* TimeStep and position gains the new velocity * TimeStep.
C14_IntegrationStepFixed ==
    [][lastOp'.op = "UpdatePhysics"
       => /\ CurrentVelocity'
                 = VAdd(CurrentVelocity, VMul(CurrentAcceleration, TimeStep))
          /\ CurrentPosition' = VAdd(CurrentPosition, VMul(CurrentVelocity', TimeStep))]_vars

\* C15: the catalog always holds the five bodies the constructor added
\* (Earth, Moon, Mars, Jupiter, Saturn), and no step adds, removes or changes
\* an entry of it, positions and velocities included.
C15_CatalogReadOnly ==
    /\ [](/\ Len(CelestialBodies) = 5
          /\ [i \in 1..5 |-> CelestialBodies[i].Name]
                 = << "Earth", "Moon", "Mars", "Jupiter", "Saturn" >>)
    /\ [][CelestialBodies' = CelestialBodies]_vars

\* a tick has applied the gravity of the catalog's bodies
C15_Witness ==
    /\ lastOp.op = "TickComponent"
    /\ CurrentAcceleration # ZeroVector
    /\ VecFinite(CurrentAcceleration)
    /\ CelestialBodies[2].Position = Vec(Lit(3844, 5), Zero, Zero)

\* C16: an operation on one component leaves every field of the other
\* component and the other component's timer as they were, and two components
\* at play never hold the same timer handle.
OtherTimer == { t \in Timers : t.Handle = Other.PhysicsTimer }

C16_VehiclesIndependent ==
    [][lastOp'.op # "OtherComponent"
       => /\ Other' = Other
          /\ OtherTimer' = OtherTimer
          /\ (pc' = "playing" /\ Other'.pc = "playing")
             => PhysicsTimer' # Other'.PhysicsTimer]_vars

\* a tick has driven one component's position to NaN while the other
\* component, a spacecraft's, is at play with a finite state and its timer
C16_Witness ==
    /\ lastOp.op = "TickComponent"
    /\ ~VecFinite(CurrentPosition)
    /\ Other.pc = "playing"
    /\ Other.Owner = "Spacecraft"
    /\ VecFinite(Other.State.CurrentPosition)
    /\ Other.State.CurrentPosition # ZeroVector
    /\ Cardinality(OtherTimer) = 1

\* C17: on an ellipse without thrust, a tick that advances SimulationTime by
\* exactly one period T = 2 pi sqrt(a^3 / mu) leaves position and velocity
\* where they were before it (within 1 km and 1 m/s), be that the state the
\* spacecraft was initialized with or the state of an earlier tick.
Near(a, b, tol) == FLt(Size(VSub(a, b)), tol)

C17_Periodicity ==
    [][(/\ lastOp'.op = "TickComponent"
        /\ lastOp.op \in { "BeginPlay", "TickComponent" }
        /\ FLt(Eccentricity, One)
        /\ FGt(SemiMajorAxis, Zero)
        /\ TimeAcceleration = One
        /\ lastOp'.thrust = NoThrust
        /\ lastOp'.DeltaTime = GetOrbitalPeriod(This))
       => /\ Near(CurrentPosition', CurrentPosition, Lit(1000, 0))
          /\ Near(CurrentVelocity', CurrentVelocity, One)]_vars

\* C18: after a tick has propagated an ellipse (e < 1, a > 0), the speed is
\* sqrt(mu (2 / r - 1 / a)) at the radius r it was propagated to, within
\* 1 m/s.
VisVivaSpeed ==
    Sqrt(FMul(Mu, FSub(FDiv(Two, Size(CurrentPosition)), FDiv(One, SemiMajorAxis))))

C18_VisViva ==
    (/\ Ticked
     /\ FLt(Eccentricity, One)
     /\ FGt(SemiMajorAxis, Zero))
    => FLt(FAbs(FSub(Size(CurrentVelocity), VisVivaSpeed)), One)

\* C19: a step of UpdatePhysics integrates an acceleration that
\* ApplyGravitationalForces computed since the step of UpdatePhysics before
\* it: never the zero vector of the constructor or of that step's reset (the
\* pull of the catalog's bodies is never zero).
C19_FreshForces ==
    [][lastOp'.op = "UpdatePhysics" => CurrentAcceleration # ZeroVector]_vars

\* C20: a step of UpdatePhysics, SetTimeAcceleration, CalculateOrbitalTransfer
\* or of TickComponent without a positive thrust magnitude leaves
\* Eccentricity, and so the regime and the branch of UpdateOrbitalPosition,
\* as they were.
Regime(e) ==
    IF FLt(e, One) THEN "elliptical"
    ELSE IF FGt(e, One) THEN "hyperbolic"
    ELSE "parabolic"

C20_RegimeNeedsForce ==
    [][(\/ lastOp'.op \in { "UpdatePhysics", "SetTimeAcceleration",
                            "CalculateOrbitalTransfer" }
        \/ /\ lastOp'.op = "TickComponent"
           /\ ~FGt(lastOp'.thrust.Magnitude, Zero))
       => /\ Eccentricity' = Eccentricity
          /\ Regime(Eccentricity') = Regime(Eccentricity)]_vars

\* a tick without thrust has propagated a spacecraft on an ellipse, and the
\* stored regime is still elliptical
C20_Witness ==
    /\ lastOp.op = "TickComponent"
    /\ lastOp.thrust = NoThrust
    /\ Owner = "Spacecraft"
    /\ FGt(Eccentricity, Zero)
    /\ Regime(Eccentricity) = "elliptical"
    /\ VecFinite(CurrentPosition)

\* C21: after a tick in which thrust or drag added a non-zero acceleration,
\* the six stored elements are those of the position and velocity the tick
\* left: they were recomputed within the tick.
DragAccelerationNow ==
    ApplyAtmosphericDrag([This EXCEPT !.CurrentAcceleration = ZeroVector]).CurrentAcceleration

ThrustInTick == Owner = "Spacecraft" /\ FGt(lastOp.thrust.Magnitude, Zero)

ElementsOf(c) ==
    << c.SemiMajorAxis, c.Eccentricity, c.Inclination, c.LongitudeOfAscendingNode,
       c.ArgumentOfPeriapsis, c.TrueAnomaly >>

C21_ElementsRecomputed ==
    (/\ Ticked
     /\ VecFinite(CurrentPosition)
     /\ VecFinite(CurrentVelocity)
     /\ ThrustInTick \/ DragAccelerationNow # ZeroVector)
    => ElementsOf(This) = ElementsOf(CalculateOrbitalElements(This))

\* C22: the force model of a tick writes acceleration only: the position and
\* velocity a tick leaves are the ones the propagation step of that tick set.
C22_ForceModelOutputsAcceleration ==
    [][lastOp'.op = "TickComponent" =>
        \E p \in { UpdateOrbitalPosition([This EXCEPT !.SimulationTime = SimulationTime']) } :
            /\ CurrentPosition' = p.CurrentPosition
            /\ CurrentVelocity' = p.CurrentVelocity]_vars

\* C23: the gravitational acceleration of a tick is the sum over the catalog
\* of G m d / |d|^3, d the vector from the vehicle to the body, a body at
\* distance 0 contributing nothing (within 1% of the sum's magnitude).
RECURSIVE NewtonGravity(_, _, _)
NewtonGravity(bodies, pos, i) ==
    IF i > Len(bodies) THEN ZeroVector
    ELSE Only({ Only({
        VAdd(NewtonGravity(bodies, pos, i + 1),
             IF FGt(d, Zero)
             THEN VMul(ToBody, FDiv(FMul(GravitationalConstant, bodies[i].Mass),
                                    FMul(FMul(d, d), d)))
             ELSE ZeroVector) :
        d \in { Size(ToBody) } }) :
        ToBody \in { VSub(bodies[i].Position, pos) } })

C23_NewtonianGravity ==
    (Ticked /\ VecFinite(CurrentPosition))
    => \E g \in { NewtonGravity(CelestialBodies, CurrentPosition, 1) } :
           Near(GravityLoop(CelestialBodies, CurrentPosition, ZeroVector, 1), g,
                FMul(Lit(1, -2), Size(g)))

\* C24: at a tick whose altitude is at or above the atmosphere's limit (the
\* 100 km of the atmospheric-entry test), drag adds nothing to the
\* acceleration; below it, what drag adds points against the velocity and is
\* zero for a vehicle at rest.
AltitudeNow == FSub(RadiusNow, EarthRadius)

AtmosphereLimit == Lit(1, 5)

C24_DragOnlyBelowThreshold ==
    (Ticked /\ VecFinite(CurrentPosition) /\ VecFinite(CurrentVelocity))
    => IF FGe(AltitudeNow, AtmosphereLimit)
       THEN DragAccelerationNow = ZeroVector
       ELSE /\ FLe(DotProduct(DragAccelerationNow, CurrentVelocity), Zero)
            /\ CurrentVelocity = ZeroVector => DragAccelerationNow = ZeroVector

\* C25: a firing of the physics timer is one semi-implicit Euler step of size
\* h = TimeStep * TimeAcceleration: the velocity gains acceleration * h, the
\* position gains the new velocity * h, the acceleration becomes the zero
\* vector, and the elements, SimulationTime and TimeAcceleration stay.
C25_SemiImplicitEuler ==
    [][lastOp'.op = "UpdatePhysics" =>
        \E h \in { FMul(TimeStep, TimeAcceleration) } :
        \E v \in { VAdd(CurrentVelocity, VMul(CurrentAcceleration, h)) } :
            /\ CurrentVelocity' = v
            /\ CurrentPosition' = VAdd(CurrentPosition, VMul(v, h))
            /\ CurrentAcceleration' = ZeroVector
            /\ UNCHANGED << SemiMajorAxis, Eccentricity, Inclination, ArgumentOfPeriapsis,
                            LongitudeOfAscendingNode, TrueAnomaly, SimulationTime,
                            TimeAcceleration >>]_vars

\* a step of size other than TimeStep has moved a vehicle whose velocity a
\* tick had changed
C25_Witness ==
    /\ lastOp.op = "UpdatePhysics"
    /\ TimeAcceleration # One
    /\ VecFinite(CurrentPosition)
    /\ VecFinite(CurrentVelocity)
    /\ CurrentVelocity \notin { s.Velocity : s \in ActorStates }

\* C26: the mean anomaly an elliptical tick hands to the Kepler solver lies
\* in [0, 2 pi).
C26_MeanAnomalyReduced ==
    (Ticked /\ FLt(Eccentricity, One) /\ FGt(SemiMajorAxis, Zero))
    => /\ FGe(EllipticalMeanAnomaly(This), Zero)
       /\ FLt(EllipticalMeanAnomaly(This), TwoPi)

\* C27: TransformOrbitalToWorld returns Rz(node) Rx(inclination) Rz(periapsis) v:
\* the rotation by the argument of periapsis is applied to v first, the one
\* by the longitude of the ascending node last (within 0.001 for unit vectors).
PerifocalToReference(v) ==
    RotateAboutZ(
        RotateAboutX(
            RotateAboutZ(v, Cos(ArgumentOfPeriapsis), Sin(ArgumentOfPeriapsis)),
            Cos(Inclination), Sin(Inclination)),
        Cos(LongitudeOfAscendingNode), Sin(LongitudeOfAscendingNode))

C27_PerifocalRotation ==
    \A call \in kCalls :
        Near(call.Result, PerifocalToReference(call.OrbitalVector), Lit(1, -3))

\* C28: on an elliptical orbit the position and velocity a tick leaves are
\* those UpdateEllipticalOrbit derives from the stored elements and the new
\* SimulationTime, plus the velocity change of a thrust of that tick: the
\* position, velocity and acceleration held before the tick do not enter.
C28_TickOverwritesIntegrator ==
    [][(lastOp'.op = "TickComponent" /\ FLt(Eccentricity, One)) =>
        \E p \in { UpdateEllipticalOrbit([This EXCEPT !.CurrentPosition = ZeroVector,
                                                      !.CurrentVelocity = ZeroVector,
                                                      !.CurrentAcceleration = ZeroVector,
                                                      !.SimulationTime = SimulationTime']) } :
            /\ CurrentPosition' = p.CurrentPosition
            /\ CurrentVelocity' =
                   IF Owner = "Spacecraft" /\ FGt(lastOp'.thrust.Magnitude, Zero)
                   THEN VAdd(p.CurrentVelocity,
                             VMul(VDiv(VMul(lastOp'.thrust.Vector, lastOp'.thrust.Magnitude),
                                       SpacecraftMass),
                                  TimeStep))
                   ELSE p.CurrentVelocity]_vars

\* a second or later step was a tick on a closed orbit
C28_Witness ==
    /\ Ticked
    /\ steps >= 2
    /\ FLt(Eccentricity, One)
    /\ FGt(SemiMajorAxis, Zero)
    /\ VecFinite(CurrentPosition)
    /\ VecFinite(CurrentVelocity)

\* C29: from BeginPlay on, the world holds exactly one timer for the
\* component, the one PhysicsTimer names, and its period is
\* TimeStep / TimeAcceleration.
C29_OnePhysicsTimer ==
    Playing =>
        Timers = { [Handle |-> PhysicsTimer, Rate |-> FDiv(TimeStep, TimeAcceleration)] }

\* a later SetTimeAcceleration stored a clamped value
C29_Witness ==
    /\ Playing
    /\ lastOp.op = "SetTimeAcceleration"
    /\ steps >= 2
    /\ FEq(TimeAcceleration, Lit(1, -1))

\* C30: the acceleration a tick leaves is the sum of that tick alone, gravity
\* of the catalog at the position of the tick, then the thrust of the tick,
\* then drag, whatever the acceleration was before; the acceleration the
\* integrator leaves is the zero vector.
ThrustAccelerationNow ==
    IF ThrustInTick
    THEN VDiv(VMul(lastOp.thrust.Vector, lastOp.thrust.Magnitude), SpacecraftMass)
    ELSE ZeroVector

C30_AccelerationNotAccumulated ==
    /\ Ticked =>
           CurrentAcceleration =
               VAdd(VAdd(GravityLoop(CelestialBodies, CurrentPosition, ZeroVector, 1),
                         ThrustAccelerationNow),
                    DragAccelerationNow)
    /\ lastOp.op = "UpdatePhysics" => CurrentAcceleration = ZeroVector

\* the second of two consecutive ticks left a non-zero acceleration
C30_Witness ==
    /\ Ticked
    /\ prevBroadcast # << >>
    /\ VecFinite(CurrentAcceleration)
    /\ CurrentAcceleration # ZeroVector

====
